---- MODULE Spec2Model ----
(***************************************************************************)
(* A model of the CDM-to-sequence pipeline of ApolloR's python package:    *)
(*   - the table stream reader   (AbstractCdmDataProcessor                 *)
(*                                ._create_table_iterator),                *)
(*   - the partition merge-join  (AbstractCdmDataProcessor                 *)
(*                                ._process_partition),                    *)
(*   - the per-person pipeline   (call_per_observation_period,             *)
(*                                group_by_visit, union_domain_tables,     *)
(*                                CehrBertCdmDataProcessor                 *)
(*                                ._process_observation_period),           *)
(*   - the interval token        (_create_interval_token).                 *)
(* Each part has its own specification (SpecReader, Spec and SpecPool,     *)
(* SpecPerson and SpecVisits, SpecToken); the variables of the other parts *)
(* stay at their idle value.                                               *)
(***************************************************************************)
EXTENDS Integers, Sequences, FiniteSets, TLC

VARIABLES
    \* ---- table stream reader (SpecReader)
    file,                \* the rows of one table file, in file order
    cuts,                \* the row counts after which a physical batch ends
    gen,                 \* the generator's frame: position, buffer, buffer_person_id
    yielded,             \* the row groups yielded so far
    \* ---- partition merge-join (Spec)
    files,               \* table name -> rows of the partition's file
    present,             \* table name -> does the partition's file exist
    table_iterators,     \* table name -> generator frame
    person_iterator,     \* generator frame of the anchor (person) stream
    table_person_datas,  \* table name -> lookahead group (None when exhausted)
    person,              \* the current person row group
    cdm_tables,          \* the combined table-set being assembled
    ti,                  \* position in the loop over the tables
    pc,                  \* position in _process_partition
    err,                 \* the exception that ended the partition, if any
    calls,               \* log of the _process_person calls: person id, table-set
    output,              \* self._output
    written,             \* partition index -> the rows written to its output file
    partition_i,         \* the partition being processed
    hooks,               \* log of the lifecycle hooks called
    max_cores,           \* self._max_cores
    person_partition_count, \* self._person_partition_count
    \* ---- person pipeline (SpecPerson) and visit grouping (SpecVisits)
    person_tables,       \* the table-set _process_person is called with
    drug_mapping,        \* self._drug_mapping
    cfg_link_by_date,        \* option of group_by_visit
    cfg_create_missing_visits, \* option of group_by_visit
    period_i,            \* position in the loop over the observation periods
    period_tables,       \* the table-set last handed to the handler
    grouped_tables,      \* the table-set last given to group_by_visit
    returned_visit_datas,         \* the list group_by_visit returned last
    output_rows,         \* the output rows appended to self._output
    ppc,                 \* position in the person pipeline
    \* ---- interval token (SpecToken)
    days,                \* the gap in days
    interval_token       \* the token made of it

readerVars == <<file, cuts, gen, yielded>>
partVars == <<files, present, table_iterators, person_iterator, table_person_datas,
              person, cdm_tables, ti, pc, err, calls, output, written, partition_i, hooks,
              max_cores, person_partition_count>>
personVars == <<person_tables, drug_mapping, cfg_link_by_date, cfg_create_missing_visits, period_i,
                period_tables, grouped_tables, returned_visit_datas, output_rows, ppc>>
tokenVars == <<days, interval_token>>
vars == <<readerVars, partVars, personVars, tokenVars>>
\* What an action of one part leaves alone: the variables of the other parts.
notReader == <<partVars, personVars, tokenVars>>
notPart == <<readerVars, personVars, tokenVars>>
notPerson == <<readerVars, partVars, tokenVars>>
notToken == <<readerVars, partVars, personVars>>

\* ---------------------------------------------------------------- bounds
MaxPerson == 3          \* person ids are 1..MaxPerson
ReaderMaxRows == 4      \* rows of the file read under SpecReader
MaxRows == 3            \* rows of each table file of a partition
ChunkRows == 1          \* rows per physical batch of a partition's files
MaxDate == 3            \* the dates are DateScale * (1..MaxDate)
DateScale == 20         \* days between two dates of the model
MaxTableRows == 4       \* observation periods + visits + events of a person
MaxVisitRows == 3       \* visits + events of a table-set given to group_by_visit
MaxVisitId == 2         \* the visit_occurrence_id values an event can carry
MaxGapDays == 400       \* the gaps given to _create_interval_token
MaxPartitions == 2      \* partition files found in the person directory
MaxPoolRows == 2        \* rows of each table file of a partition run by the pool

\* ---------------------------------------------------------------- constants
PERSON == "person"
OBSERVATION_PERIOD == "observation_period"
VISIT_OCCURRENCE == "visit_occurrence"
\* The tables of CDM_TABLES the partition model iterates, in CDM_TABLES order.
CDM_TABLES == <<OBSERVATION_PERIOD, VISIT_OCCURRENCE>>
\* Python's None, for a row group and for a person id.
None == <<>>
NonePersonId == 0

Range(s) == {s[i] : i \in DOMAIN s}
Min(S) == CHOOSE x \in S : \A y \in S : x <= y

\* The files the upstream extraction produces: rows sorted ascending by person id.
\* A row is its person id and its position in the file.
SortedIdSeqs(maxLen) ==
    UNION {{s \in [1..n -> 1..MaxPerson] : \A i \in 1..n, j \in 1..n : i < j => s[i] <= s[j]}
           : n \in 0..maxLen}
RowsOf(ids) == [i \in DOMAIN ids |-> [person_id |-> ids[i], row |-> i]]

\* ---------------------------------------------------------------- reader
\* table.to_batches(): the file's rows cut into consecutive physical batches.
RECURSIVE to_batches(_, _)
to_batches(rows, cutset) ==
    IF rows = <<>> THEN <<>>
    ELSE LET c == Min((cutset \cap (1..Len(rows))) \cup {Len(rows)})
         IN  <<SubSeq(rows, 1, c)>> \o
             to_batches(SubSeq(rows, c + 1, Len(rows)), {x - c : x \in {y \in cutset : y > c}})

\* batch.groupby(PERSON_ID): one group per distinct key, keys ascending, each
\* group keeping the batch's row order.
RECURSIVE groupby(_)
groupby(batch) ==
    IF batch = <<>> THEN <<>>
    ELSE LET k == Min({batch[i].person_id : i \in DOMAIN batch})
         IN  <<SelectSeq(batch, LAMBDA r : r.person_id = k)>> \o
             groupby(SelectSeq(batch, LAMBDA r : r.person_id # k))

NewIterator == [pc |-> "start", batch |-> 0, grp |-> 0,
                buffer |-> None, buffer_person_id |-> NonePersonId]

\* A reader that restarts the buffer where it should grow it.
BufferAppendRestarts(buffer, group) == group
\* buffer.append(group)
BufferAppend(buffer, group) == buffer \o group

\* One step of the generator body: the read, one iteration of the inner loop,
\* the move to the next batch, or the tail after the loops. Returns the new
\* frame and what the step yields (<<>> or one group).
GenStep(g, rows, cutset, exists) ==
    LET batches == to_batches(rows, cutset) IN
    CASE g.pc = "start" ->
            IF exists
            THEN [gen |-> [g EXCEPT !.pc = "loop", !.batch = 1, !.grp = 1], yield |-> <<>>]
            ELSE [gen |-> [g EXCEPT !.pc = "raised"], yield |-> <<>>]
      [] g.pc = "loop" /\ g.batch > Len(batches) ->
            IF g.buffer_person_id # NonePersonId
            THEN [gen |-> [g EXCEPT !.pc = "done"], yield |-> <<g.buffer>>]
            ELSE [gen |-> [g EXCEPT !.pc = "done"], yield |-> <<>>]
      [] g.pc = "loop" /\ g.batch <= Len(batches) ->
            LET groups == groupby(batches[g.batch]) IN
            IF g.grp > Len(groups)
            THEN [gen |-> [g EXCEPT !.batch = g.batch + 1, !.grp = 1], yield |-> <<>>]
            ELSE LET group == groups[g.grp]
                     person_id == group[1].person_id
                 IN  IF g.buffer_person_id = NonePersonId
                     THEN [gen |-> [g EXCEPT !.grp = g.grp + 1, !.buffer = group,
                                             !.buffer_person_id = person_id],
                           yield |-> <<>>]
                     ELSE IF g.buffer_person_id = person_id
                     THEN [gen |-> [g EXCEPT !.grp = g.grp + 1,
                                             !.buffer = BufferAppend(g.buffer, group)],
                           yield |-> <<>>]
                     ELSE [gen |-> [g EXCEPT !.grp = g.grp + 1, !.buffer = group,
                                             !.buffer_person_id = person_id],
                           yield |-> <<g.buffer>>]
      [] OTHER -> [gen |-> g, yield |-> <<>>]

\* next(iterator, None): run the generator to its next yield, its end or its
\* exception. value is the group, or None at the end.
RECURSIVE GenNext(_, _, _, _)
GenNext(g, rows, cutset, exists) ==
    IF g.pc \in {"done", "raised"} THEN [gen |-> g, value |-> None]
    ELSE LET r == GenStep(g, rows, cutset, exists)
         IN  IF r.yield # <<>> THEN [gen |-> r.gen, value |-> r.yield[1]]
             ELSE GenNext(r.gen, rows, cutset, exists)

ReaderIdle ==
    /\ file = <<>>
    /\ cuts = {}
    /\ gen = NewIterator
    /\ yielded = <<>>

InitReader ==
    /\ file \in {RowsOf(s) : s \in SortedIdSeqs(ReaderMaxRows)}
    /\ cuts \in SUBSET (1..(Len(file) - 1))
    /\ gen = NewIterator
    /\ yielded = <<>>

\* pq.read_table on the first next().
ReaderOpen ==
    /\ gen.pc = "start"
    /\ gen' = GenStep(gen, file, cuts, TRUE).gen
    /\ UNCHANGED <<file, cuts, yielded>>
    /\ UNCHANGED notReader

\* One iteration of the loops over the batches and their groups.
ReaderLoop ==
    /\ gen.pc = "loop"
    /\ gen.batch <= Len(to_batches(file, cuts))
    /\ LET r == GenStep(gen, file, cuts, TRUE)
       IN  /\ gen' = r.gen
           /\ yielded' = yielded \o r.yield
    /\ UNCHANGED <<file, cuts>>
    /\ UNCHANGED notReader

\* After the loops: the last accumulated group.
ReaderTail ==
    /\ gen.pc = "loop"
    /\ gen.batch > Len(to_batches(file, cuts))
    /\ LET r == GenStep(gen, file, cuts, TRUE)
       IN  /\ gen' = r.gen
           /\ yielded' = yielded \o r.yield
    /\ UNCHANGED <<file, cuts>>
    /\ UNCHANGED notReader

\* ---------------------------------------------------------------- partition
\* The physical batches of a partition's file: ChunkRows rows each.
ChunkCuts(rows) == {k \in 1..(Len(rows) - 1) : k % ChunkRows = 0}

\* The person file holds one row per person; the other files any sorted rows.
PersonFilesOf(maxLen) == {RowsOf(s) : s \in {t \in SortedIdSeqs(maxLen) :
                                      \A i \in DOMAIN t, j \in DOMAIN t : i < j => t[i] < t[j]}}
TableFilesOf(maxLen) == {RowsOf(s) : s \in SortedIdSeqs(maxLen)}
PersonFiles == PersonFilesOf(MaxRows)
TableFiles == TableFilesOf(MaxRows)
\* The rows a partition's files hold at most: fewer when several partitions run.
PartitionRows == IF max_cores = -1 THEN MaxRows ELSE MaxPoolRows
TableNames == Range(CDM_TABLES)

PartIdle ==
    /\ files = <<>>
    /\ present = <<>>
    /\ table_iterators = <<>>
    /\ person_iterator = NewIterator
    /\ table_person_datas = <<>>
    /\ person = None
    /\ cdm_tables = <<>>
    /\ ti = 0
    /\ pc = "init"
    /\ err = "none"
    /\ calls = <<>>
    /\ output = <<>>
    /\ written = <<>>
    /\ partition_i = 0
    /\ hooks = <<>>
    /\ max_cores = -1
    /\ person_partition_count = 0

\* d[k] = v on a dict that may not hold k yet.
DictSet(d, k, v) == [x \in DOMAIN d \cup {k} |-> IF x = k THEN v ELSE d[x]]

\* process_cdm_data up to the first partition: _get_partition_counts counts the
\* person files, _prepare runs, and max_cores = -1 cuts the count to 1.
Prepare ==
    /\ pc = "init"
    /\ hooks' = Append(hooks, <<"prepare">>)
    /\ \E n \in 1..MaxPartitions :
          person_partition_count' = IF max_cores = -1 THEN 1 ELSE n
    /\ partition_i' = 0
    /\ pc' = "partition"
    /\ UNCHANGED <<files, present, table_iterators, person_iterator, table_person_datas,
                   person, cdm_tables, ti, err, calls, output, written, max_cores>>
    /\ UNCHANGED notPart

\* A _prepare_partition that leaves the buffer as the last partition left it.
prepare_partition_keeps(out) == out
\* AbstractToParquetCdmDataProcessor._prepare_partition: self._output = []
prepare_partition(out) == <<>>

\* _process_partition up to the creation of the iterators; the partition's
\* files are what the upstream extraction left on disk.
StartPartition ==
    /\ pc = "partition"
    /\ \E pf \in PersonFilesOf(PartitionRows), tf \in [TableNames -> TableFilesOf(PartitionRows)],
          ex \in [TableNames -> BOOLEAN] :
          /\ files' = DictSet(tf, PERSON, pf)
          /\ present' = DictSet(ex, PERSON, TRUE)
    /\ hooks' = Append(hooks, <<"prepare_partition", partition_i>>)
    /\ output' = prepare_partition(output)
    /\ table_iterators' = [t \in TableNames |-> NewIterator]
    /\ person_iterator' = NewIterator
    /\ table_person_datas' = <<>>
    /\ ti' = 1
    /\ pc' = "prime"
    /\ UNCHANGED <<person, cdm_tables, err, calls, written, partition_i>>
    /\ UNCHANGED <<max_cores, person_partition_count>>
    /\ UNCHANGED notPart

\* table_person_datas[table_name] = next(table_iterator, None)
Prime ==
    /\ pc = "prime"
    /\ LET t == CDM_TABLES[ti]
           r == GenNext(table_iterators[t], files[t], ChunkCuts(files[t]), present[t])
       IN  /\ table_iterators' = [table_iterators EXCEPT ![t] = r.gen]
           /\ IF r.gen.pc = "raised"
              THEN /\ pc' = "error"
                   /\ err' = "FileNotFoundError"
                   /\ UNCHANGED <<table_person_datas, ti>>
              ELSE /\ table_person_datas' = DictSet(table_person_datas, t, r.value)
                   /\ ti' = ti + 1
                   /\ pc' = IF ti = Len(CDM_TABLES) THEN "next_person" ELSE "prime"
                   /\ err' = err
    /\ UNCHANGED <<files, present, person_iterator, person, cdm_tables, calls, output,
                   written, partition_i, hooks>>
    /\ UNCHANGED <<max_cores, person_partition_count>>
    /\ UNCHANGED notPart

\* for person in self._create_table_iterator(PERSON, partition_i)
NextPerson ==
    /\ pc = "next_person"
    /\ LET r == GenNext(person_iterator, files[PERSON], ChunkCuts(files[PERSON]), present[PERSON])
       IN  /\ person_iterator' = r.gen
           /\ IF r.value = None
              THEN /\ pc' = "finish"
                   /\ UNCHANGED <<person, cdm_tables, ti>>
              ELSE /\ person' = r.value
                   /\ cdm_tables' = [t \in {PERSON} |-> r.value]
                   /\ ti' = 1
                   /\ pc' = "align"
    /\ UNCHANGED <<files, present, table_iterators, table_person_datas, err, calls, output,
                   written, partition_i, hooks>>
    /\ UNCHANGED <<max_cores, person_partition_count>>
    /\ UNCHANGED notPart

\* while table_person_data is not None and its person id < person_id:
\*     table_person_data = next(table_iterators[table_name], None)
RECURSIVE SkipWhile(_, _, _, _, _)
SkipWhile(t, it, data, person_id, orEqual) ==
    IF data # None /\ (data[1].person_id < person_id
                       \/ (orEqual /\ data[1].person_id = person_id))
    THEN LET r == GenNext(it, files[t], ChunkCuts(files[t]), present[t])
         IN  SkipWhile(t, r.gen, r.value, person_id, orEqual)
    ELSE [gen |-> it, data |-> data]
\* A skip that also passes over the group of the person itself.
SkipBehindOrAt(t, it, data, person_id) == SkipWhile(t, it, data, person_id, TRUE)
SkipBehind(t, it, data, person_id) == SkipWhile(t, it, data, person_id, FALSE)

\* One iteration of the loop over table_person_datas.items() for the current person.
Align ==
    /\ pc = "align"
    /\ LET t == CDM_TABLES[ti]
           person_id == person[1].person_id
           s == SkipBehind(t, table_iterators[t], table_person_datas[t], person_id)
       IN  /\ table_iterators' = [table_iterators EXCEPT ![t] = s.gen]
           /\ IF s.data # None /\ s.data[1].person_id = person_id
              THEN /\ cdm_tables' = DictSet(cdm_tables, t, s.data)
                   /\ UNCHANGED table_person_datas
              ELSE /\ table_person_datas' = [table_person_datas EXCEPT ![t] = s.data]
                   /\ UNCHANGED cdm_tables
    /\ ti' = ti + 1
    /\ pc' = IF ti = Len(CDM_TABLES) THEN "process" ELSE "align"
    /\ UNCHANGED <<files, present, person_iterator, person, err, calls, output, written,
                   partition_i, hooks>>
    /\ UNCHANGED <<max_cores, person_partition_count>>
    /\ UNCHANGED notPart

\* An accumulation that puts the new rows first.
PrependOutput(out, rows) == rows \o out
\* self._output.append(output_row), for the rows of one person.
AppendOutput(out, rows) == out \o rows

\* _process_observation_period appends one output row for the period it is given.
OutputRow(observation_period) ==
    [cohort_member_id |-> observation_period.row, person_id |-> observation_period.person_id]

\* self._process_person(person_id, cdm_tables): call_per_observation_period looks up
\* cdm_tables[OBSERVATION_PERIOD] and calls the handler for each of its rows.
ProcessPerson ==
    /\ pc = "process"
    /\ calls' = Append(calls, [person_id |-> person[1].person_id, cdm_tables |-> cdm_tables,
                               partition_i |-> partition_i])
    /\ hooks' = Append(hooks, <<"process_person", person[1].person_id>>)
    /\ IF OBSERVATION_PERIOD \in DOMAIN cdm_tables
       THEN /\ output' = AppendOutput(output, [i \in DOMAIN cdm_tables[OBSERVATION_PERIOD] |->
                                                  OutputRow(cdm_tables[OBSERVATION_PERIOD][i])])
            /\ pc' = "next_person"
            /\ err' = err
       ELSE /\ pc' = "error"
            /\ err' = "KeyError"
            /\ output' = output
    /\ UNCHANGED <<files, present, table_iterators, person_iterator, table_person_datas,
                   person, cdm_tables, ti, written, partition_i>>
    /\ UNCHANGED <<max_cores, person_partition_count>>
    /\ UNCHANGED notPart

\* _finish_partition: the rows are written when there are any.
FinishPartition ==
    /\ pc = "finish"
    /\ hooks' = Append(hooks, <<"finish_partition", partition_i>>)
    /\ written' = IF Len(output) > 0 THEN DictSet(written, partition_i, output) ELSE written
    /\ pc' = "done"
    /\ UNCHANGED <<files, present, table_iterators, person_iterator, table_person_datas,
                   person, cdm_tables, ti, err, calls, output, partition_i>>
    /\ UNCHANGED <<max_cores, person_partition_count>>
    /\ UNCHANGED notPart

\* A range that hands out the same partition again.
same_in_range(i) == i
\* range(self._person_partition_count): the partition after partition i.
next_in_range(i) == i + 1

\* pool.map(self._process_partition, range(self._person_partition_count)) seen
\* from one worker: the worker takes its next partition when the one before has
\* ended, by its end or by its exception, with the processor as it was left.
NextPartition ==
    /\ pc \in {"done", "error"}
    /\ max_cores # -1
    /\ next_in_range(partition_i) < person_partition_count
    /\ partition_i' = next_in_range(partition_i)
    /\ pc' = "partition"
    /\ UNCHANGED <<files, present, table_iterators, person_iterator, table_person_datas,
                   person, cdm_tables, ti, err, calls, output, written, hooks,
                   max_cores, person_partition_count>>
    /\ UNCHANGED notPart

\* ---------------------------------------------------------------- person pipeline
\* Column and table names of cdm_processor_utils.
OBSERVATION_PERIOD_ID == "observation_period_id"
OBSERVATION_PERIOD_START_DATE == "observation_period_start_date"
OBSERVATION_PERIOD_END_DATE == "observation_period_end_date"
PERSON_ID == "person_id"
CONDITION_OCCURRENCE == "condition_occurrence"
DRUG_EXPOSURE == "drug_exposure"
DRUG_CONCEPT_ID == "drug_concept_id"
DEATH == "death"
VISIT_OCCURRENCE_ID == "visit_occurrence_id"
VISIT_START_DATE == "visit_start_date"
VISIT_END_DATE == "visit_end_date"
VISIT_CONCEPT_ID == "visit_concept_id"
VISIT_START == "VS"
VISIT_END == "VE"
DEATH_CONCEPT_ID == 4306655
\* np.NAN, the visit_occurrence_id of a row that has none: equal to nothing.
NAN == 0
\* dt.date(1970, 1, 1); a date is its number of days since then.
EPOCH == 0

START_DATE_FIELDS ==
    [observation_period |-> OBSERVATION_PERIOD_START_DATE,
     visit_occurrence |-> VISIT_START_DATE,
     condition_occurrence |-> "condition_start_date",
     drug_exposure |-> "drug_exposure_start_date",
     death |-> "death_date"]
\* The domain tables the model carries, in DOMAIN_TABLES order.
DOMAIN_TABLES == <<CONDITION_OCCURRENCE, DRUG_EXPOSURE, DEATH>>
COLUMNS_TO_SELECT ==
    [condition_occurrence |-> <<"condition_concept_id", "condition_start_date">>,
     drug_exposure |-> <<"drug_concept_id", "drug_exposure_start_date">>,
     death |-> <<"death_date">>]

Max(S) == CHOOSE x \in S : \A y \in S : x >= y

\* ---- call_per_observation_period
\* A filter that leaves out the period's last day.
FilterByDateEndExclusive(table, field, start_date, end_date) ==
    SelectSeq(table, LAMBDA r : r[field] >= start_date /\ r[field] < end_date)
\* table[(start_dates >= start) & (start_dates <= end)]
FilterByDate(table, field, start_date, end_date) ==
    SelectSeq(table, LAMBDA r : r[field] >= start_date /\ r[field] <= end_date)

\* new_cdm_tables of one observation period.
PeriodTables(tables, observation_period) ==
    [t \in DOMAIN tables |->
        IF t \in DOMAIN START_DATE_FIELDS
        THEN FilterByDate(tables[t], START_DATE_FIELDS[t],
                          observation_period[OBSERVATION_PERIOD_START_DATE],
                          observation_period[OBSERVATION_PERIOD_END_DATE])
        ELSE tables[t]]

\* ---- group_by_visit
\* VisitData(visit)
VisitData(visit) ==
    [visit |-> visit, cdm_tables |-> <<>>, visit_start_date |-> visit[VISIT_START_DATE]]

\* An equality under which two missing ids are equal.
IdEqualsWithNan(a, b) == a = b
\* a == b on ids, where np.NAN equals nothing.
IdEquals(a, b) == a # NAN /\ b # NAN /\ a = b

\* The index picked among the conditions that hold for one element.
PiecewisePick(hits) == Max(hits)
\* np.piecewise([0] * n, condlist, funclist) with constant funclist entries:
\* y starts as zeros and y[cond] = func is applied for each condition in
\* order; one func more than conditions adds the "otherwise" condition.
Piecewise(n, condlist, funclist) ==
    LET conds == IF Len(condlist) = Len(funclist) - 1
                 THEN Append(condlist,
                             [k \in 1..n |-> \A i \in DOMAIN condlist : ~condlist[i][k]])
                 ELSE condlist
        Hits(k) == {i \in DOMAIN conds : conds[i][k]}
    IN  [k \in 1..n |-> IF Hits(k) = {} THEN 0 ELSE funclist[PiecewisePick(Hits(k))]]

\* VISIT_OCCURRENCE_ID in cdm_table
HasColumn(cdm_table, column) == column \in DOMAIN cdm_table[1]

\* The event_visit_index of a non-empty domain table against the visits so far.
EventVisitIndex(cdm_table, start_date_field, visits, link_by_date) ==
    LET n == Len(cdm_table)
        visit_indices == [i \in 1..Len(visits) |-> i - 1]
        ById(i, k) == IdEquals(cdm_table[k][VISIT_OCCURRENCE_ID], visits[i][VISIT_OCCURRENCE_ID])
        ByDate(i, k) == /\ cdm_table[k][start_date_field] >= visits[i][VISIT_START_DATE]
                        /\ cdm_table[k][start_date_field] <= visits[i][VISIT_END_DATE]
        Unassigned == [k \in 1..n |-> -1]
    IN  IF Len(visits) = 0 THEN Unassigned
        ELSE IF link_by_date
        THEN IF HasColumn(cdm_table, VISIT_OCCURRENCE_ID)
             THEN Piecewise(n, [i \in 1..Len(visits) |-> [k \in 1..n |-> ById(i, k) \/ ByDate(i, k)]],
                            Append(visit_indices, -1))
             ELSE Piecewise(n, [i \in 1..Len(visits) |-> [k \in 1..n |-> ByDate(i, k)]],
                            Append(visit_indices, -1))
        ELSE IF HasColumn(cdm_table, VISIT_OCCURRENCE_ID)
        THEN Piecewise(n, [i \in 1..Len(visits) |-> [k \in 1..n |-> ById(i, k)]],
                       Append(visit_indices, -1))
        ELSE Unassigned

\* Series.unique(): the distinct values in order of first appearance.
RECURSIVE Unique(_)
Unique(s) ==
    IF s = <<>> THEN <<>>
    ELSE LET init == Unique(SubSeq(s, 1, Len(s) - 1))
             last == s[Len(s)]
         IN  IF last \in Range(init) THEN init ELSE Append(init, last)

\* The distinct values of a sequence of integers, ascending.
RECURSIVE SortedKeys(_)
SortedKeys(S) == IF S = {} THEN <<>> ELSE <<Min(S)>> \o SortedKeys(S \ {Min(S)})

\* The positions at which a boolean mask holds, ascending.
Positions(mask) == SortedKeys({k \in DOMAIN mask : mask[k]})

\* An attachment that keeps only the first event of each group.
RECURSIVE AttachFirstEvents(_, _, _, _, _)
AttachFirstEvents(visit_datas, table_name, cdm_table, event_visit_index, keys) ==
    IF keys = <<>> THEN visit_datas
    ELSE LET visit_index == Head(keys)
             first == Min({k \in DOMAIN event_visit_index : event_visit_index[k] = visit_index})
             at == visit_index + 1
             attached == [i \in DOMAIN visit_datas |->
                             IF i = at
                             THEN [visit |-> visit_datas[i].visit,
                                   cdm_tables |-> DictSet(visit_datas[i].cdm_tables,
                                                          table_name, <<cdm_table[first]>>),
                                   visit_start_date |-> visit_datas[i].visit_start_date]
                             ELSE visit_datas[i]]
         IN  AttachFirstEvents(attached, table_name, cdm_table, event_visit_index, Tail(keys))
\* for visit_index, events in cdm_table.groupby(event_visit_index):
\*     visit_datas[visit_index].cdm_tables[table_name] = events
RECURSIVE AttachEvents(_, _, _, _, _)
AttachEvents(visit_datas, table_name, cdm_table, event_visit_index, keys) ==
    IF keys = <<>> THEN visit_datas
    ELSE LET visit_index == Head(keys)
             pos == Positions([k \in DOMAIN event_visit_index |->
                                  event_visit_index[k] = visit_index])
             events == [j \in DOMAIN pos |-> cdm_table[pos[j]]]
             \* Python list index: a negative index counts from the end
             at == IF visit_index >= 0 THEN visit_index + 1
                   ELSE Len(visit_datas) + 1 + visit_index
             attached == [i \in DOMAIN visit_datas |->
                             IF i = at
                             THEN [visit |-> visit_datas[i].visit,
                                   cdm_tables |-> DictSet(visit_datas[i].cdm_tables,
                                                          table_name, events),
                                   visit_start_date |-> visit_datas[i].visit_start_date]
                             ELSE visit_datas[i]]
         IN  AttachEvents(attached, table_name, cdm_table, event_visit_index, Tail(keys))

\* A filter that keeps the unassigned events too.
AssignedOrNot(event_visit_index) == SortedKeys(DOMAIN event_visit_index)
\* idx = event_visit_index != -1
Assigned(event_visit_index) ==
    Positions([k \in DOMAIN event_visit_index |-> event_visit_index[k] # -1])

\* The body of the loop over DOMAIN_TABLES for one table that is in cdm_tables
\* and not empty. acc holds visits and visit_datas.
GroupTable(acc, table_name, cdm_table, link_by_date, create_missing_visits, missing_visit_concept_id) ==
    LET start_date_field == START_DATE_FIELDS[table_name]
        visits == acc.visits
        n == Len(cdm_table)
        evi0 == EventVisitIndex(cdm_table, start_date_field, visits, link_by_date)
        idx == Positions([k \in 1..n |-> evi0[k] = -1])
    IN  IF create_missing_visits
        THEN IF idx # <<>>
             THEN LET dates == Unique([j \in DOMAIN idx |-> cdm_table[idx[j]][start_date_field]])
                      person_id == cdm_table[1][PERSON_ID]
                      missing_visit_indices ==
                          [j \in DOMAIN dates |-> Len(visits) + j - 1]
                      missing_visits ==
                          [j \in DOMAIN dates |->
                              [person_id |-> person_id,
                               visit_occurrence_id |-> NAN,
                               visit_concept_id |-> missing_visit_concept_id,
                               visit_start_date |-> dates[j],
                               visit_end_date |-> dates[j]]]
                      pw == Piecewise(Len(idx),
                                      [j \in DOMAIN dates |->
                                          [k \in DOMAIN idx |->
                                              cdm_table[idx[k]][start_date_field] = dates[j]]],
                                      missing_visit_indices)
                      evi == [k \in 1..n |->
                                 IF evi0[k] = -1
                                 THEN pw[CHOOSE j \in DOMAIN idx : idx[j] = k]
                                 ELSE evi0[k]]
                      new_visit_datas ==
                          acc.visit_datas \o [j \in DOMAIN dates |-> VisitData(missing_visits[j])]
                  IN  [visits |-> visits \o missing_visits,
                       visit_datas |-> AttachEvents(new_visit_datas, table_name, cdm_table, evi,
                                                    SortedKeys(Range(evi)))]
             ELSE [visits |-> visits,
                   visit_datas |-> AttachEvents(acc.visit_datas, table_name, cdm_table, evi0,
                                                SortedKeys(Range(evi0)))]
        ELSE LET keep == Assigned(evi0)
                 kept_table == [j \in DOMAIN keep |-> cdm_table[keep[j]]]
                 kept_index == [j \in DOMAIN keep |-> evi0[keep[j]]]
             IN  [visits |-> visits,
                  visit_datas |-> AttachEvents(acc.visit_datas, table_name, kept_table, kept_index,
                                               SortedKeys(Range(kept_index)))]

\* for table_name in DOMAIN_TABLES, from position i on.
RECURSIVE GroupTables(_, _, _, _, _, _)
GroupTables(acc, i, tables, link_by_date, create_missing_visits, missing_visit_concept_id) ==
    IF i > Len(DOMAIN_TABLES) THEN acc
    ELSE LET table_name == DOMAIN_TABLES[i]
             next == IF table_name \in DOMAIN tables /\ Len(tables[table_name]) # 0
                     THEN GroupTable(acc, table_name, tables[table_name], link_by_date,
                                     create_missing_visits, missing_visit_concept_id)
                     ELSE acc
         IN  GroupTables(next, i + 1, tables, link_by_date, create_missing_visits,
                         missing_visit_concept_id)

\* An insertion that puts a position before the positions of equal key.
RECURSIVE InsertBeforeEqualKeys(_, _, _)
InsertBeforeEqualKeys(sorted, i, keys) ==
    IF sorted = <<>> THEN <<i>>
    ELSE IF keys[sorted[Len(sorted)]] < keys[i] THEN Append(sorted, i)
         ELSE Append(InsertBeforeEqualKeys(SubSeq(sorted, 1, Len(sorted) - 1), i, keys),
                     sorted[Len(sorted)])
\* A stable ascending sort, by insertion from the left: the order in which
\* the positions of keys come out.
RECURSIVE InsertByKey(_, _, _)
InsertByKey(sorted, i, keys) ==
    IF sorted = <<>> THEN <<i>>
    ELSE IF keys[sorted[Len(sorted)]] <= keys[i] THEN Append(sorted, i)
         ELSE Append(InsertByKey(SubSeq(sorted, 1, Len(sorted) - 1), i, keys),
                     sorted[Len(sorted)])
RECURSIVE StableOrder(_, _)
StableOrder(keys, n) ==
    IF n = 0 THEN <<>> ELSE InsertByKey(StableOrder(keys, n - 1), n, keys)
\* list.sort(key=...) for integer keys.
SortByKey(s, keys) == LET order == StableOrder(keys, Len(s)) IN [i \in DOMAIN s |-> s[order[i]]]

group_by_visit(tables, link_by_date, create_missing_visits, missing_visit_concept_id) ==
    LET visits == IF VISIT_OCCURRENCE \in DOMAIN tables THEN tables[VISIT_OCCURRENCE] ELSE <<>>
        visit_datas == [i \in DOMAIN visits |-> VisitData(visits[i])]
        acc == GroupTables([visits |-> visits, visit_datas |-> visit_datas], 1, tables,
                           link_by_date, create_missing_visits, missing_visit_concept_id)
    IN  SortByKey(acc.visit_datas,
                  [i \in DOMAIN acc.visit_datas |-> acc.visit_datas[i].visit_start_date])

\* ---- _process_observation_period
\* str(n) for an integer.
Digits == <<"0", "1", "2", "3", "4", "5", "6", "7", "8", "9">>
RECURSIVE NatStr(_)
NatStr(n) == IF n < 10 THEN Digits[n + 1] ELSE NatStr(n \div 10) \o Digits[(n % 10) + 1]
IntStr(n) == IF n < 0 THEN "-" \o NatStr(0 - n) ELSE NatStr(n)

\* A bucketing that counts the 28th day as a week.
create_interval_token_28_weeks(d) ==
    IF d < 0 THEN "W-1"
    ELSE IF d <= 28 THEN "W" \o IntStr(d \div 7)
    ELSE IF d < 360 THEN "M" \o IntStr(d \div 30)
    ELSE "LT"
\* _create_interval_token(days)
create_interval_token(d) ==
    IF d < 0 THEN "W-1"
    ELSE IF d < 28 THEN "W" \o IntStr(d \div 7)
    ELSE IF d < 360 THEN "M" \o IntStr(d \div 30)
    ELSE "LT"

\* math.floor(days / 7)
days_to_weeks(d) == d \div 7
\* math.floor(days / 30.5)
days_to_months(d) == (2 * d) \div 61

\* dt.date(year, month, day) as days since 1970-01-01 (proleptic Gregorian).
DateOf(year, month, day) ==
    LET y == IF month <= 2 THEN year - 1 ELSE year
        era == y \div 400
        yoe == y - era * 400
        mp == IF month > 2 THEN month - 3 ELSE month + 9
        doy == (153 * mp + 2) \div 5 + day - 1
        doe == yoe * 365 + yoe \div 4 - yoe \div 100 + doy
    IN  era * 146097 + doe - 719468

\* get_date_of_birth(person): a missing month or day counts as 1.
get_date_of_birth(p) ==
    DateOf(p.year_of_birth,
           IF p.month_of_birth = NAN THEN 1 ELSE p.month_of_birth,
           IF p.day_of_birth = NAN THEN 1 ELSE p.day_of_birth)

\* The rows of left.join(mapping, on=drug_concept_id, how="inner") for the
\* mapping rows from position i on: one row per match, the drug concept id
\* replaced by the ingredient concept id.
RECURSIVE JoinRow(_, _, _)
JoinRow(r, mapping, i) ==
    IF i > Len(mapping) THEN <<>>
    ELSE (IF mapping[i].drug_concept_id = r[DRUG_CONCEPT_ID]
          THEN <<[r EXCEPT ![DRUG_CONCEPT_ID] = mapping[i].ingredient_concept_id]>>
          ELSE <<>>) \o JoinRow(r, mapping, i + 1)
\* A left join: a drug without ingredient stays as it is.
RECURSIVE JoinIngredientsLeft(_, _)
JoinIngredientsLeft(table, mapping) ==
    IF table = <<>> THEN <<>>
    ELSE (IF JoinRow(Head(table), mapping, 1) = <<>> THEN <<Head(table)>>
          ELSE JoinRow(Head(table), mapping, 1)) \o JoinIngredientsLeft(Tail(table), mapping)
RECURSIVE JoinIngredients(_, _)
JoinIngredients(table, mapping) ==
    IF table = <<>> THEN <<>>
    ELSE JoinRow(Head(table), mapping, 1) \o JoinIngredients(Tail(table), mapping)
\* Map drugs to ingredients.
MapDrugs(tables, mapping) ==
    IF DRUG_EXPOSURE \in DOMAIN tables
    THEN [tables EXCEPT ![DRUG_EXPOSURE] = JoinIngredients(tables[DRUG_EXPOSURE], mapping)]
    ELSE tables

\* union_domain_tables: the (concept_id, start_date) rows of the domain tables
\* of a table-set, table after table in DOMAIN_TABLES order.
RECURSIVE UnionFrom(_, _)
UnionFrom(tables, i) ==
    IF i > Len(DOMAIN_TABLES) THEN <<>>
    ELSE LET table_name == DOMAIN_TABLES[i]
             columns_to_select == COLUMNS_TO_SELECT[table_name]
             part == IF table_name \notin DOMAIN tables THEN <<>>
                     ELSE IF table_name = DEATH
                     THEN [k \in DOMAIN tables[table_name] |->
                              [concept_id |-> DEATH_CONCEPT_ID,
                               start_date |-> tables[table_name][k][columns_to_select[1]]]]
                     ELSE [k \in DOMAIN tables[table_name] |->
                              [concept_id |-> tables[table_name][k][columns_to_select[1]],
                               start_date |-> tables[table_name][k][columns_to_select[2]]]]
         IN  part \o UnionFrom(tables, i + 1)
union_domain_tables(tables) == UnionFrom(tables, 1)

\* An order by concept id first and date second.
EventLeqConceptFirst(a, b) ==
    \/ a.concept_id < b.concept_id
    \/ a.concept_id = b.concept_id /\ a.start_date <= b.start_date
\* The order of sort_values([START_DATE, CONCEPT_ID], ascending=True).
EventLeq(a, b) ==
    \/ a.start_date < b.start_date
    \/ a.start_date = b.start_date /\ a.concept_id <= b.concept_id
RECURSIVE InsertEvent(_, _)
InsertEvent(sorted, e) ==
    IF sorted = <<>> THEN <<e>>
    ELSE IF EventLeq(sorted[Len(sorted)], e) THEN Append(sorted, e)
         ELSE Append(InsertEvent(SubSeq(sorted, 1, Len(sorted) - 1), e), sorted[Len(sorted)])
RECURSIVE sort_values(_)
sort_values(t) ==
    IF t = <<>> THEN <<>>
    ELSE InsertEvent(sort_values(SubSeq(t, 1, Len(t) - 1)), t[Len(t)])

\* A repetition one short.
RepeatOneShort(x, n) == [i \in 1..(n - 1) |-> x]
\* [x] * n
Repeat(x, n) == [i \in 1..n |-> x]

\* Segments that start at 1 for the first visit.
VisitSegmentFromOne(visit_rank) == ((visit_rank + 1) % 2) + 1
\* The segment of the tokens of the visit of a rank.
VisitSegment(visit_rank) == (visit_rank % 2) + 1

\* A gap taken from the later date to the earlier one.
interval_days_backwards(visit_start_date, previous_visit_end_date) ==
    previous_visit_end_date - visit_start_date
\* (visit_group.visit_start_date - previous_visit_end_date).days
interval_days(visit_start_date, previous_visit_end_date) ==
    visit_start_date - previous_visit_end_date

\* The body of the loop over the visit groups: acc holds the six lists,
\* previous_visit_end_date and visit_rank.
VisitStep(acc, visit_group, date_of_birth) ==
    LET visit_rank == acc.visit_rank + 1
        withInterval ==
            IF visit_rank > 1
            THEN [concept_ids |-> Append(acc.concept_ids, create_interval_token(
                      interval_days(visit_group.visit_start_date, acc.previous_visit_end_date))),
                  visit_segments |-> Append(acc.visit_segments, 0),
                  dates |-> Append(acc.dates, 0),
                  ages |-> Append(acc.ages, -1),
                  visit_concept_orders |-> Append(acc.visit_concept_orders, visit_rank + 1),
                  visit_concept_ids |-> Append(acc.visit_concept_ids, 0)]
            ELSE acc
        visit_end_date == visit_group.visit[VISIT_END_DATE]
        event_table == sort_values(union_domain_tables(visit_group.cdm_tables))
        visit_token_len == Len(event_table) + 2
    IN  [concept_ids |->
            withInterval.concept_ids \o <<VISIT_START>>
            \o [k \in DOMAIN event_table |-> IntStr(event_table[k].concept_id)]
            \o <<VISIT_END>>,
         visit_segments |->
            withInterval.visit_segments \o Repeat(VisitSegment(visit_rank), visit_token_len),
         dates |->
            withInterval.dates \o <<days_to_weeks(visit_group.visit_start_date - EPOCH)>>
            \o [k \in DOMAIN event_table |-> days_to_weeks(event_table[k].start_date - EPOCH)]
            \o <<days_to_weeks(visit_end_date - EPOCH)>>,
         ages |->
            withInterval.ages
            \o <<days_to_months(visit_group.visit_start_date - date_of_birth)>>
            \o [k \in DOMAIN event_table |->
                   days_to_months(event_table[k].start_date - date_of_birth)]
            \o <<days_to_months(visit_end_date - date_of_birth)>>,
         visit_concept_orders |->
            withInterval.visit_concept_orders \o Repeat(visit_rank, visit_token_len),
         visit_concept_ids |->
            withInterval.visit_concept_ids
            \o Repeat(visit_group.visit[VISIT_CONCEPT_ID], visit_token_len),
         previous_visit_end_date |-> visit_end_date,
         visit_rank |-> visit_rank]

RECURSIVE VisitLoop(_, _, _, _)
VisitLoop(acc, groups, i, date_of_birth) ==
    IF i > Len(groups) THEN acc
    ELSE VisitLoop(VisitStep(acc, groups[i], date_of_birth), groups, i + 1, date_of_birth)

\* The output row of one observation period, from the visit groups of its
\* table-set.
output_row(observation_period, visit_groups, date_of_birth) ==
    LET acc == VisitLoop([concept_ids |-> <<>>, visit_segments |-> <<>>, dates |-> <<>>,
                          ages |-> <<>>, visit_concept_orders |-> <<>>,
                          visit_concept_ids |-> <<>>, previous_visit_end_date |-> EPOCH,
                          visit_rank |-> 0],
                         visit_groups, 1, date_of_birth)
    IN  [cohort_member_id |-> observation_period[OBSERVATION_PERIOD_ID],
         person_id |-> observation_period[PERSON_ID],
         concept_ids |-> acc.concept_ids,
         visit_segments |-> acc.visit_segments,
         orders |-> [i \in 1..(Len(acc.concept_ids) - 1) |-> i],
         dates |-> acc.dates,
         ages |-> acc.ages,
         visit_concept_orders |-> acc.visit_concept_orders,
         num_of_visits |-> acc.visit_rank,
         num_of_concepts |-> Len(acc.concept_ids),
         visit_concept_ids |-> acc.visit_concept_ids]

\* ---- the inputs of the person pipeline
Dates == {DateScale * k : k \in 1..MaxDate}
Intervals == {iv \in Dates \X Dates : iv[1] <= iv[2]}
VISIT_CONCEPT == 9201
ThePersonId == 1
\* The person's row group: one row, born 1969 with no month or day recorded.
PersonGroup ==
    <<[person_id |-> ThePersonId, year_of_birth |-> 1969, month_of_birth |-> NAN,
       day_of_birth |-> NAN, row |-> 1]>>
\* The row groups the person stream can hold for the person: the one row, or
\* two rows of the same person id with different years of birth.
PersonGroups ==
    {PersonGroup,
     PersonGroup \o <<[person_id |-> ThePersonId, year_of_birth |-> 1968,
                       month_of_birth |-> NAN, day_of_birth |-> NAN, row |-> 2]>>}
PeriodRow(i, iv) ==
    [observation_period_id |-> i, person_id |-> ThePersonId,
     observation_period_start_date |-> iv[1], observation_period_end_date |-> iv[2],
     row |-> i]
VisitRow(i, iv) ==
    [person_id |-> ThePersonId, visit_occurrence_id |-> i, visit_concept_id |-> VISIT_CONCEPT,
     visit_start_date |-> iv[1], visit_end_date |-> iv[2], row |-> i]
\* A domain-table row; the death table has neither a concept id nor a
\* visit_occurrence_id column.
EventRow(e, i) ==
    IF e.table = CONDITION_OCCURRENCE
    THEN [person_id |-> ThePersonId, condition_concept_id |-> e.concept,
          condition_start_date |-> e.date, visit_occurrence_id |-> e.visit, row |-> i]
    ELSE IF e.table = DRUG_EXPOSURE
    THEN [person_id |-> ThePersonId, drug_concept_id |-> e.concept,
          drug_exposure_start_date |-> e.date, visit_occurrence_id |-> e.visit, row |-> i]
    ELSE [person_id |-> ThePersonId, death_date |-> e.date, row |-> i]
\* The events a person can have: conditions 9 and 10, drugs 21 and 22, death.
Events(conditions, drugs, visitIds) ==
    [table : {CONDITION_OCCURRENCE}, concept : conditions, date : Dates, visit : visitIds]
    \cup [table : {DRUG_EXPOSURE}, concept : drugs, date : Dates, visit : visitIds]
    \cup [table : {DEATH}, concept : {DEATH_CONCEPT_ID}, date : Dates, visit : {NAN}]
\* The table-set of a person: a table is there when it has rows.
TableSet(ps, vs, es) ==
    LET of(t) == SelectSeq(es, LAMBDA e : e.table = t)
        rows(t) == [i \in DOMAIN of(t) |-> EventRow(of(t)[i], i)]
        names == {PERSON}
                 \cup (IF ps # <<>> THEN {OBSERVATION_PERIOD} ELSE {})
                 \cup (IF vs # <<>> THEN {VISIT_OCCURRENCE} ELSE {})
                 \cup {t \in Range(DOMAIN_TABLES) : of(t) # <<>>}
    IN  [t \in names |->
            IF t = PERSON THEN PersonGroup
            ELSE IF t = OBSERVATION_PERIOD THEN [i \in DOMAIN ps |-> PeriodRow(i, ps[i])]
            ELSE IF t = VISIT_OCCURRENCE THEN [i \in DOMAIN vs |-> VisitRow(i, vs[i])]
            ELSE rows(t)]

\* The drug-to-ingredient mapping of load_mapping_to_ingredients: drug 21 has
\* the ingredients 5 and 6, drug 22 has none.
DrugMappings ==
    {<<[drug_concept_id |-> 21, ingredient_concept_id |-> 5]>>,
     <<[drug_concept_id |-> 21, ingredient_concept_id |-> 5],
       [drug_concept_id |-> 21, ingredient_concept_id |-> 6]>>}
\* missing_visit_concept_id=0
MISSING_VISIT_CONCEPT_ID == 0

PersonIdle ==
    /\ person_tables = <<>>
    /\ drug_mapping = <<>>
    /\ cfg_link_by_date = TRUE
    /\ cfg_create_missing_visits = TRUE
    /\ period_i = 0
    /\ period_tables = <<>>
    /\ grouped_tables = <<>>
    /\ returned_visit_datas = <<>>
    /\ output_rows = <<>>
    /\ ppc = "idle"

\* _process_person is entered with the table-set of one person and the
\* mapping _prepare loaded.
InitPerson ==
    /\ \E p \in 1..MaxTableRows, v \in 0..MaxTableRows, e \in 0..MaxTableRows :
          /\ p + v + e <= MaxTableRows
          /\ \E ps \in [1..p -> Intervals], vs \in [1..v -> Intervals],
                es \in [1..e -> Events({9, 10}, {21, 22}, {NAN})] :
                \E pg \in PersonGroups : person_tables = DictSet(TableSet(ps, vs, es), PERSON, pg)
    /\ drug_mapping \in DrugMappings
    /\ cfg_link_by_date = TRUE
    /\ cfg_create_missing_visits = TRUE
    /\ period_i = 1
    /\ period_tables = <<>>
    /\ grouped_tables = <<>>
    /\ returned_visit_datas = <<>>
    /\ output_rows = <<>>
    /\ ppc = "periods"

\* One iteration of call_per_observation_period: the period's table-set, then
\* the handler _process_observation_period to its end.
ProcessObservationPeriod ==
    /\ ppc = "periods"
    /\ LET observation_period == person_tables[OBSERVATION_PERIOD][period_i]
           new_cdm_tables == PeriodTables(person_tables, observation_period)
           mapped == MapDrugs(new_cdm_tables, drug_mapping)
           date_of_birth == get_date_of_birth(mapped[PERSON][1])
           groups == group_by_visit(mapped, TRUE, TRUE, MISSING_VISIT_CONCEPT_ID)
       IN  /\ period_tables' = new_cdm_tables
           /\ grouped_tables' = mapped
           /\ returned_visit_datas' = groups
           /\ output_rows' = Append(output_rows, output_row(observation_period, groups, date_of_birth))
    /\ period_i' = period_i + 1
    /\ ppc' = IF period_i = Len(person_tables[OBSERVATION_PERIOD]) THEN "done" ELSE "periods"
    /\ UNCHANGED <<person_tables, drug_mapping, cfg_link_by_date, cfg_create_missing_visits>>
    /\ UNCHANGED notPerson

\* group_by_visit is entered with a period's table-set and its options.
InitVisits ==
    /\ \E v \in 0..MaxVisitRows, e \in 0..MaxVisitRows :
          /\ v + e <= MaxVisitRows
          /\ \E vs \in [1..v -> Intervals],
                es \in [1..e -> Events({9}, {5}, {NAN} \cup (1..MaxVisitId))] :
                grouped_tables = TableSet(<<>>, vs, es)
    /\ cfg_link_by_date \in BOOLEAN
    /\ cfg_create_missing_visits \in BOOLEAN
    /\ person_tables = <<>>
    /\ drug_mapping = <<>>
    /\ period_i = 0
    /\ period_tables = <<>>
    /\ returned_visit_datas = <<>>
    /\ output_rows = <<>>
    /\ ppc = "group"

GroupByVisit ==
    /\ ppc = "group"
    /\ returned_visit_datas' = group_by_visit(grouped_tables, cfg_link_by_date, cfg_create_missing_visits,
                                     MISSING_VISIT_CONCEPT_ID)
    /\ ppc' = "grouped"
    /\ UNCHANGED <<person_tables, drug_mapping, cfg_link_by_date, cfg_create_missing_visits, period_i,
                   period_tables, grouped_tables, output_rows>>
    /\ UNCHANGED notPerson

\* ---- the interval token alone
TokenIdle ==
    /\ days = 0
    /\ interval_token = ""

InitToken ==
    /\ days \in (0 - MaxGapDays)..MaxGapDays
    /\ interval_token = ""

CreateIntervalToken ==
    /\ interval_token = ""
    /\ interval_token' = create_interval_token(days)
    /\ UNCHANGED days
    /\ UNCHANGED notToken

\* ---------------------------------------------------------------- specifications
Init == ReaderIdle /\ PartIdle /\ PersonIdle /\ TokenIdle
Next == Prepare \/ StartPartition \/ Prime \/ NextPerson \/ Align \/ ProcessPerson
        \/ FinishPartition
Spec == Init /\ [][Next]_vars

\* process_cdm_data with a pool of one worker.
PoolInit ==
    /\ files = <<>>
    /\ present = <<>>
    /\ table_iterators = <<>>
    /\ person_iterator = NewIterator
    /\ table_person_datas = <<>>
    /\ person = None
    /\ cdm_tables = <<>>
    /\ ti = 0
    /\ pc = "init"
    /\ err = "none"
    /\ calls = <<>>
    /\ output = <<>>
    /\ written = <<>>
    /\ partition_i = 0
    /\ hooks = <<>>
    /\ max_cores = 1
    /\ person_partition_count = 0
InitPool == PoolInit /\ ReaderIdle /\ PersonIdle /\ TokenIdle
NextPool == Prepare \/ StartPartition \/ Prime \/ NextPerson \/ Align \/ ProcessPerson
            \/ FinishPartition \/ NextPartition
SpecPool == InitPool /\ [][NextPool]_vars

InitR == InitReader /\ PartIdle /\ PersonIdle /\ TokenIdle
NextReader == ReaderOpen \/ ReaderLoop \/ ReaderTail
SpecReader == InitR /\ [][NextReader]_vars

InitP == InitPerson /\ ReaderIdle /\ PartIdle /\ TokenIdle
NextPersonPipeline == ProcessObservationPeriod
SpecPerson == InitP /\ [][NextPersonPipeline]_vars

InitV == InitVisits /\ ReaderIdle /\ PartIdle /\ TokenIdle
NextVisits == GroupByVisit
SpecVisits == InitV /\ [][NextVisits]_vars

InitT == InitToken /\ ReaderIdle /\ PartIdle /\ PersonIdle
NextToken == CreateIntervalToken
SpecToken == InitT /\ [][NextToken]_vars

\* ---------------------------------------------------------------- claims
RECURSIVE Concat(_)
Concat(groups) == IF groups = <<>> THEN <<>> ELSE Head(groups) \o Concat(Tail(groups))
\* The rows of a file that belong to one person, in file order.
RowsOfPerson(rows, p) == SelectSeq(rows, LAMBDA r : r.person_id = p)
PersonIdsOf(rows) == {rows[i].person_id : i \in DOMAIN rows}

\* C2: for a file sorted by person id, however its rows are cut into batches,
\* the reader yields one group per distinct person id, each group holding all
\* and only that person's rows, in ascending person-id order; at the end of
\* input the last group is out and the groups concatenate to the file.
ReaderYieldsOneGroupPerPerson ==
    /\ \A i \in DOMAIN yielded :
          /\ yielded[i] # <<>>
          /\ yielded[i] = RowsOfPerson(file, yielded[i][1].person_id)
    /\ \A i \in DOMAIN yielded, j \in DOMAIN yielded :
          i < j => yielded[i][1].person_id < yielded[j][1].person_id
    /\ gen.pc = "done" =>
          /\ Concat(yielded) = file
          /\ Len(yielded) = Cardinality(PersonIdsOf(file))

\* C2 witness: the reader has finished a file of several persons in which one
\* person's rows straddle a batch boundary.
ReaderStraddleWitness ==
    /\ gen.pc = "done"
    /\ Len(yielded) >= 2
    /\ \E c \in cuts : file[c].person_id = file[c + 1].person_id

Started == pc \notin {"init", "partition"}

\* C1: every table-set handed to process-person holds table T exactly when T's
\* file has rows for that person, and then holds exactly those rows; groups of
\* persons absent from the person stream are attached to nobody and end the
\* partition with no error.
MergeJoinAttachesExactlyThePersonsGroup ==
    /\ \A k \in DOMAIN calls : \A t \in TableNames :
          LET g == RowsOfPerson(files[t], calls[k].person_id)
          IN  /\ (t \in DOMAIN calls[k].cdm_tables) <=> (g # <<>>)
              /\ (t \in DOMAIN calls[k].cdm_tables) => calls[k].cdm_tables[t] = g
    /\ pc = "error" =>
          \/ err = "FileNotFoundError" /\ \E t \in TableNames : ~present[t]
          \/ err = "KeyError" /\ calls # <<>>
                /\ RowsOfPerson(files[OBSERVATION_PERIOD], calls[Len(calls)].person_id) = <<>>

\* C1 witness: a finished partition in which a table's stream held a group of
\* an unknown person before the group of the first person, and nothing for
\* the second person.
MergeJoinSkipWitness ==
    /\ pc = "done"
    /\ Len(calls) = 2
    /\ \E t \in TableNames :
          /\ t \in DOMAIN calls[1].cdm_tables
          /\ t \notin DOMAIN calls[2].cdm_tables
          /\ \E i \in DOMAIN files[t] :
                /\ files[t][i].person_id < calls[1].person_id
                /\ files[t][i].person_id \notin PersonIdsOf(files[PERSON])

AbsentTableReadsAsEmpty ==
    Started =>
        /\ err # "FileNotFoundError"
        /\ pc \in {"finish", "done"} =>
              /\ Len(calls) = Len(files[PERSON])
              /\ \A k \in DOMAIN calls : \A t \in TableNames :
                    ~present[t] => t \notin DOMAIN calls[k].cdm_tables

\* The start date of a row of a table, by the table's own column.
RowDate(t, r) ==
    CASE t = "observation_period" -> r.observation_period_start_date
      [] t = "visit_occurrence" -> r.visit_start_date
      [] t = "condition_occurrence" -> r.condition_start_date
      [] t = "drug_exposure" -> r.drug_exposure_start_date
      [] t = "death" -> r.death_date
Count(s, x) == Cardinality({i \in DOMAIN s : s[i] = x})
HandledPeriod == person_tables["observation_period"][period_i - 1]
LastRow == output_rows[Len(output_rows)]

\* C5: the handler runs once per row of the person's observation-period
\* table, in row order, and the table-set it gets holds, for every table with
\* a start-date column, exactly the person's rows with
\* period.start <= date <= period.end, in their order, and the person table
\* unchanged.
PeriodsSegmentedInclusive ==
    ppc \in {"periods", "done"} =>
        /\ Len(output_rows) = period_i - 1
        /\ \A k \in DOMAIN output_rows :
              output_rows[k].cohort_member_id
                  = person_tables["observation_period"][k].observation_period_id
        /\ ppc = "done" => Len(output_rows) = Len(person_tables["observation_period"])
        /\ period_i > 1 =>
              /\ DOMAIN period_tables = DOMAIN person_tables
              /\ period_tables["person"] = person_tables["person"]
              /\ \A t \in DOMAIN person_tables \ {"person"} :
                    LET InPeriod(r) ==
                            /\ HandledPeriod.observation_period_start_date <= RowDate(t, r)
                            /\ RowDate(t, r) <= HandledPeriod.observation_period_end_date
                    IN  period_tables[t] = SelectSeq(person_tables[t], InPeriod)

\* C5 witness: the second of two periods was handled, and a table lost a row
\* to the filter while keeping one dated on the period's last day.
PeriodBoundaryWitness ==
    /\ ppc = "done"
    /\ period_i = 3
    /\ \E t \in DOMAIN person_tables \ {"person", "observation_period"} :
          /\ Len(period_tables[t]) < Len(person_tables[t])
          /\ \E i \in DOMAIN period_tables[t] :
                RowDate(t, period_tables[t][i]) = HandledPeriod.observation_period_end_date
                /\ HandledPeriod.observation_period_start_date
                     < HandledPeriod.observation_period_end_date

\* C6: in every output row the token, segment, time-offset, age, visit-rank
\* and visit-concept-id arrays have the length num_of_concepts, and
\* num_of_visits is the number of visit bundles of the period; with no bundle
\* all of them are empty.
ParallelArraysSameLength ==
    /\ \A k \in DOMAIN output_rows :
          LET r == output_rows[k] IN
          /\ Len(r.concept_ids) = r.num_of_concepts
          /\ Len(r.visit_segments) = r.num_of_concepts
          /\ Len(r.dates) = r.num_of_concepts
          /\ Len(r.ages) = r.num_of_concepts
          /\ Len(r.visit_concept_orders) = r.num_of_concepts
          /\ Len(r.visit_concept_ids) = r.num_of_concepts
          /\ r.num_of_visits = 0 => r.num_of_concepts = 0
    /\ output_rows # <<>> => LastRow.num_of_visits = Len(returned_visit_datas)

\* C6 witness: one period gave a row of two visits with an event, another a
\* row of no visit at all.
EmptyAndFullRowWitness ==
    /\ \E k \in DOMAIN output_rows :
          output_rows[k].num_of_visits >= 2 /\ output_rows[k].num_of_concepts >= 6
    /\ \E k \in DOMAIN output_rows : output_rows[k].num_of_visits = 0

\* C7: the interval token of a gap of g days is "W-1" for g < 0, "W" and
\* floor(g/7) for 0 <= g < 28, "M" and floor(g/30) for 28 <= g < 360, "LT"
\* from 360 on; -3 gives W-1, 10 gives W1, 40 and 50 give M1, 400 gives LT.
WeekTokens == <<"W0", "W1", "W2", "W3">>
MonthTokens == <<"M0", "M1", "M2", "M3", "M4", "M5", "M6", "M7", "M8", "M9", "M10", "M11">>
IntervalTokenBuckets ==
    interval_token # "" =>
        /\ days < 0 => interval_token = "W-1"
        /\ (0 <= days /\ days < 28) => interval_token = WeekTokens[(days \div 7) + 1]
        /\ (28 <= days /\ days < 360) => interval_token = MonthTokens[(days \div 30) + 1]
        /\ days >= 360 => interval_token = "LT"
        /\ days = -3 => interval_token = "W-1"
        /\ days = 10 => interval_token = "W1"
        /\ days \in {40, 50} => interval_token = "M1"
        /\ days = 400 => interval_token = "LT"

\* C7 witness: the token of a gap of 50 days has been made.
FiftyDaysWitness == days = 50 /\ interval_token = "M1"

\* C8: in every output row the tokens of visit r (its markers and its events)
\* have segment (r mod 2) + 1, consecutive visits have different segments
\* among 1 and 2, and every interval token has segment 0.
IntervalTokens == {"W-1", "LT"} \cup Range(WeekTokens) \cup Range(MonthTokens)
RankAt(tokens, k) == Cardinality({j \in 1..k : tokens[j] = "VS"})
SegmentsAlternate ==
    \A n \in DOMAIN output_rows :
        LET r == output_rows[n] IN
        /\ \A k \in DOMAIN r.concept_ids :
              IF r.concept_ids[k] \in IntervalTokens
              THEN r.visit_segments[k] = 0
              ELSE r.visit_segments[k] = (RankAt(r.concept_ids, k) % 2) + 1
        /\ \A j \in DOMAIN r.concept_ids, k \in DOMAIN r.concept_ids :
              (r.concept_ids[j] = "VS" /\ r.concept_ids[k] = "VS"
               /\ RankAt(r.concept_ids, k) = RankAt(r.concept_ids, j) + 1)
              => /\ r.visit_segments[j] # r.visit_segments[k]
                 /\ {r.visit_segments[j], r.visit_segments[k]} = {1, 2}

\* C8 witness: a row of three visits, the second of which holds an event.
ThreeVisitsWitness ==
    \E n \in DOMAIN output_rows :
        LET r == output_rows[n] IN
        /\ r.num_of_visits = 3
        /\ \E k \in DOMAIN r.concept_ids :
              /\ RankAt(r.concept_ids, k) = 2
              /\ r.concept_ids[k] \notin {"VS", "VE"} \cup IntervalTokens

\* A visit bundle made by the synthesis, not read from the visit table.
Synthesized(vd) == "row" \notin DOMAIN vd.visit

\* C9: with synthesis enabled, a synthesized visit ends on its start date,
\* has the configured missing-visit concept id as its type, and every event
\* attached to it is dated on that start date.
SyntheticVisitIsTheEventsDay ==
    (ppc = "grouped" /\ cfg_create_missing_visits) =>
        \A i \in DOMAIN returned_visit_datas :
            LET vd == returned_visit_datas[i] IN
            Synthesized(vd) =>
                /\ vd.visit.visit_end_date = vd.visit.visit_start_date
                /\ vd.visit_start_date = vd.visit.visit_start_date
                /\ vd.visit.visit_concept_id = MISSING_VISIT_CONCEPT_ID
                /\ \A t \in DOMAIN vd.cdm_tables : \A k \in DOMAIN vd.cdm_tables[t] :
                      RowDate(t, vd.cdm_tables[t][k]) = vd.visit.visit_start_date

\* C9 witness: beside a visit of the visit table, a synthesized visit holds
\* events of two tables.
SyntheticVisitWitness ==
    /\ ppc = "grouped"
    /\ cfg_create_missing_visits
    /\ \E i \in DOMAIN returned_visit_datas : ~Synthesized(returned_visit_datas[i])
    /\ \E i \in DOMAIN returned_visit_datas :
          /\ Synthesized(returned_visit_datas[i])
          /\ Cardinality(DOMAIN returned_visit_datas[i].cdm_tables) = 2

\* C10: a drug event without an entry in the drug-to-ingredient mapping gives
\* no token, and a mapped one gives the ingredient's concept id as its token
\* (one per mapped ingredient), never the drug's own concept id.
DrugsOfPeriod ==
    IF "drug_exposure" \in DOMAIN period_tables THEN period_tables["drug_exposure"] ELSE <<>>
IngredientsOf(drug) ==
    {m \in DOMAIN drug_mapping : drug_mapping[m].drug_concept_id = drug}
DrugsBecomeIngredients ==
    output_rows # <<>> =>
        /\ Count(LastRow.concept_ids, "21") = 0
        /\ Count(LastRow.concept_ids, "22") = 0
        /\ Count(LastRow.concept_ids, "5") =
              Cardinality({i \in DOMAIN DrugsOfPeriod :
                  \E m \in IngredientsOf(DrugsOfPeriod[i].drug_concept_id) :
                      drug_mapping[m].ingredient_concept_id = 5})
        /\ Count(LastRow.concept_ids, "6") =
              Cardinality({i \in DOMAIN DrugsOfPeriod :
                  \E m \in IngredientsOf(DrugsOfPeriod[i].drug_concept_id) :
                      drug_mapping[m].ingredient_concept_id = 6})

\* C10 witness: the period held a mapped and an unmapped drug event, and the
\* row holds the ingredient's token.
UnmappedDrugWitness ==
    /\ output_rows # <<>>
    /\ \E i \in DOMAIN DrugsOfPeriod : DrugsOfPeriod[i].drug_concept_id = 22
    /\ \E i \in DOMAIN DrugsOfPeriod : DrugsOfPeriod[i].drug_concept_id = 21
    /\ Count(LastRow.concept_ids, "5") = 1

\* C11: when the person row group holds more than one row, the handling of
\* the person fails: no output row is made from one of the rows.
TwoPersonRowsFail ==
    (ppc \in {"periods", "done"} /\ Len(person_tables["person"]) > 1) => output_rows = <<>>

\* The rows the process-person calls of partition i have produced, in call order.
RowsProducedIn(i) ==
    LET mine == SelectSeq(calls, LAMBDA c : c.partition_i = i)
        rowsOf(c) == IF "observation_period" \in DOMAIN c.cdm_tables
                     THEN [k \in DOMAIN c.cdm_tables["observation_period"] |->
                              OutputRow(c.cdm_tables["observation_period"][k])]
                     ELSE <<>>
    IN  Concat([k \in DOMAIN mine |-> rowsOf(mine[k])])
HookRan(h) == \E k \in DOMAIN hooks : hooks[k] = h

GivenVisits ==
    IF "visit_occurrence" \in DOMAIN grouped_tables THEN grouped_tables["visit_occurrence"] ELSE <<>>
\* The event row e of table t matches the visit v by id or by date.
MatchesById(e, v) ==
    "visit_occurrence_id" \in DOMAIN e /\ IdEquals(e.visit_occurrence_id, v.visit_occurrence_id)
MatchesByDate(t, e, v) == v.visit_start_date <= RowDate(t, e) /\ RowDate(t, e) <= v.visit_end_date
Matches(t, e, v) == MatchesById(e, v) \/ MatchesByDate(t, e, v)

\* C13: with linking by date, an event that matches several visits by id or by
\* date is attached to the matching visit declared first: no visit declared
\* before the one that holds the event matches it.
FirstMatchingVisitWins ==
    (ppc = "grouped" /\ cfg_link_by_date) =>
        \A i \in DOMAIN returned_visit_datas :
            LET vd == returned_visit_datas[i] IN
            ~Synthesized(vd) =>
                \A t \in DOMAIN vd.cdm_tables : \A k \in DOMAIN vd.cdm_tables[t] :
                    \A j \in DOMAIN GivenVisits :
                        j < vd.visit.row => ~Matches(t, vd.cdm_tables[t][k], GivenVisits[j])

\* The domain tables of the table-set given to group_by_visit.
GivenDomainTables == DOMAIN grouped_tables \cap Range(DOMAIN_TABLES)
\* The places (bundle, position) at which the row e of table t is attached.
PlacesOf(t, e) ==
    {p \in (DOMAIN returned_visit_datas) \X (1..(MaxVisitRows + 1)) :
        /\ t \in DOMAIN returned_visit_datas[p[1]].cdm_tables
        /\ p[2] \in DOMAIN returned_visit_datas[p[1]].cdm_tables[t]
        /\ returned_visit_datas[p[1]].cdm_tables[t][p[2]] = e}

\* C14: with synthesis enabled every event row of every domain table is
\* attached to exactly one bundle, under its own table name, the bundles hold
\* nothing else, and an event in the bundle of an existing visit matches that
\* visit by id or by date.
EveryEventInExactlyOneBundle ==
    (ppc = "grouped" /\ cfg_create_missing_visits) =>
        /\ \A t \in GivenDomainTables : \A k \in DOMAIN grouped_tables[t] :
              Cardinality(PlacesOf(t, grouped_tables[t][k])) = 1
        /\ \A i \in DOMAIN returned_visit_datas :
              LET vd == returned_visit_datas[i] IN
              \A t \in DOMAIN vd.cdm_tables :
                  /\ t \in GivenDomainTables
                  /\ \A k \in DOMAIN vd.cdm_tables[t] :
                        /\ vd.cdm_tables[t][k] \in Range(grouped_tables[t])
                        /\ ~Synthesized(vd) =>
                              IF cfg_link_by_date
                              THEN Matches(t, vd.cdm_tables[t][k], vd.visit)
                              ELSE MatchesById(vd.cdm_tables[t][k], vd.visit)

\* C14 witness: of two events of one table, one went to an existing visit and
\* the other to a synthesized one.
EventsSplitWitness ==
    /\ ppc = "grouped"
    /\ cfg_create_missing_visits
    /\ \E t \in GivenDomainTables :
          /\ Len(grouped_tables[t]) = 2
          /\ \E i \in DOMAIN returned_visit_datas, j \in DOMAIN returned_visit_datas :
                /\ ~Synthesized(returned_visit_datas[i])
                /\ Synthesized(returned_visit_datas[j])
                /\ t \in DOMAIN returned_visit_datas[i].cdm_tables
                /\ t \in DOMAIN returned_visit_datas[j].cdm_tables

\* The row e of table t matches an existing visit under the linking mode.
MatchesSomeVisit(t, e) ==
    \E j \in DOMAIN GivenVisits :
        IF cfg_link_by_date THEN Matches(t, e, GivenVisits[j]) ELSE MatchesById(e, GivenVisits[j])
\* The dates of the events that match no existing visit.
UnmatchedDates ==
    {RowDate(t, grouped_tables[t][k]) :
        <<t, k>> \in {tk \in GivenDomainTables \X (1..(MaxVisitRows + 1)) :
                          /\ tk[2] \in DOMAIN grouped_tables[tk[1]]
                          /\ ~MatchesSomeVisit(tk[1], grouped_tables[tk[1]][tk[2]])}}
SynthesizedBundles == {i \in DOMAIN returned_visit_datas : Synthesized(returned_visit_datas[i])}

\* C15: with synthesis enabled, in either linking mode, no two synthesized
\* visits have the same date, and there are as many synthesized visits as
\* distinct dates of events that matched no existing visit.
OneSyntheticVisitPerDate ==
    (ppc = "grouped" /\ cfg_create_missing_visits) =>
        /\ \A i \in SynthesizedBundles, j \in SynthesizedBundles :
              i # j => returned_visit_datas[i].visit_start_date
                         # returned_visit_datas[j].visit_start_date
        /\ Cardinality(SynthesizedBundles) = Cardinality(UnmatchedDates)

\* The place in DOMAIN_TABLES of the first table a bundle holds events of.
CreatorTable(vd) == Min({n \in DOMAIN DOMAIN_TABLES : DOMAIN_TABLES[n] \in DOMAIN vd.cdm_tables})
\* The bundle at place i was declared before the bundle at place j: existing
\* visits in file order, then synthesized visits in creation order.
DeclaredBefore(i, j) ==
    LET a == returned_visit_datas[i]
        b == returned_visit_datas[j]
    IN  IF ~Synthesized(a) /\ ~Synthesized(b) THEN a.visit.row < b.visit.row
        ELSE IF ~Synthesized(a) THEN TRUE
        ELSE IF ~Synthesized(b) THEN FALSE
        ELSE CreatorTable(a) < CreatorTable(b)

\* C16: group_by_visit returns one bundle for every existing visit, also for
\* one without events, and one per synthesized visit, ascending by visit start
\* date; bundles of equal start date keep their declaration order.
BundlesSortedStable ==
    ppc = "grouped" =>
        /\ \A n \in DOMAIN GivenVisits :
              Cardinality({i \in DOMAIN returned_visit_datas :
                              returned_visit_datas[i].visit = GivenVisits[n]}) = 1
        /\ Len(returned_visit_datas) = Len(GivenVisits) + Cardinality(SynthesizedBundles)
        /\ \A i \in DOMAIN returned_visit_datas :
              returned_visit_datas[i].visit_start_date
                  = returned_visit_datas[i].visit.visit_start_date
        /\ \A i \in DOMAIN returned_visit_datas, j \in DOMAIN returned_visit_datas :
              i < j =>
                 /\ returned_visit_datas[i].visit_start_date
                        <= returned_visit_datas[j].visit_start_date
                 /\ returned_visit_datas[i].visit_start_date
                        = returned_visit_datas[j].visit_start_date => DeclaredBefore(i, j)

\* C16 witness: three bundles of one start date came back: two existing
\* visits, the first of them empty, and a synthesized visit after them.
EqualDatesWitness ==
    /\ ppc = "grouped"
    /\ Len(returned_visit_datas) = 3
    /\ returned_visit_datas[1].visit_start_date = returned_visit_datas[3].visit_start_date
    /\ ~Synthesized(returned_visit_datas[1])
    /\ returned_visit_datas[1].cdm_tables = <<>>
    /\ ~Synthesized(returned_visit_datas[2])
    /\ Synthesized(returned_visit_datas[3])

\* The existing visits that the row e of table t matches under the linking mode.
MatchingVisits(t, e) ==
    {j \in DOMAIN GivenVisits :
        IF cfg_link_by_date THEN Matches(t, e, GivenVisits[j]) ELSE MatchesById(e, GivenVisits[j])}

IntervalTokensBetweenVisits ==
    /\ \A n \in DOMAIN output_rows :
          LET r == output_rows[n]
              toks == r.concept_ids
          IN  /\ Cardinality({k \in DOMAIN toks : toks[k] \in IntervalTokens})
                    = IF r.num_of_visits = 0 THEN 0 ELSE r.num_of_visits - 1
              /\ toks # <<>> => toks[1] = "VS"
              /\ \A k \in DOMAIN toks :
                    /\ (toks[k] = "VS" /\ RankAt(toks, k) > 1) => toks[k - 1] \in IntervalTokens
                    /\ toks[k] \in IntervalTokens =>
                          /\ k > 1 /\ k < Len(toks)
                          /\ toks[k - 1] = "VE"
                          /\ toks[k + 1] = "VS"
                          /\ r.visit_segments[k] = 0
                          /\ r.dates[k] = 0
                          /\ r.ages[k] = -1
                          /\ r.visit_concept_orders[k] = RankAt(toks, k + 1) + 1
                          /\ r.visit_concept_ids[k] = 0
    /\ output_rows # <<>> =>
          \A k \in DOMAIN LastRow.concept_ids :
              LET rank == RankAt(LastRow.concept_ids, k) IN
              (LastRow.concept_ids[k] = "VS" /\ rank > 1) =>
                  LastRow.concept_ids[k - 1] =
                      create_interval_token(
                          returned_visit_datas[rank].visit_start_date
                              - returned_visit_datas[rank - 1].visit.visit_end_date)

\* C18 witness: a row of two visits two dates (40 days) apart, with the token
\* M1 between the end marker of the first and the start marker of the second.
TwoVisitsApartWitness ==
    /\ output_rows # <<>>
    /\ LastRow.num_of_visits = 2
    /\ \E k \in DOMAIN LastRow.concept_ids : LastRow.concept_ids[k] = "M1"
    /\ returned_visit_datas[2].visit_start_date
           - returned_visit_datas[1].visit.visit_end_date = 2 * DateScale

\* The concept id of a row of a domain table, and its text as a token.
ConceptOf(t, r) ==
    CASE t = "condition_occurrence" -> r.condition_concept_id
      [] t = "drug_exposure" -> r.drug_concept_id
      [] t = "death" -> DEATH_CONCEPT_ID
TokenText(c) ==
    CASE c = 5 -> "5" [] c = 6 -> "6" [] c = 9 -> "9" [] c = 10 -> "10"
      [] c = 21 -> "21" [] c = 22 -> "22" [] c = 4306655 -> "4306655"
\* The events of a bundle as (concept, date) pairs, table after table.
BundleEvents(vd) ==
    Concat([n \in DOMAIN DOMAIN_TABLES |->
               LET t == DOMAIN_TABLES[n] IN
               IF t \in DOMAIN vd.cdm_tables
               THEN [k \in DOMAIN vd.cdm_tables[t] |->
                        [concept |-> ConceptOf(t, vd.cdm_tables[t][k]),
                         date |-> RowDate(t, vd.cdm_tables[t][k])]]
               ELSE <<>>])
\* The events of a bundle ascending by (date, numeric concept id).
AscendingEvents(vd) ==
    LET ev == BundleEvents(vd) IN
    CHOOSE s \in {[i \in DOMAIN ev |-> ev[p[i]]] : p \in Permutations(DOMAIN ev)} :
        \A i \in DOMAIN s, j \in DOMAIN s :
            i < j => \/ s[i].date < s[j].date
                     \/ s[i].date = s[j].date /\ s[i].concept <= s[j].concept
\* The block of a bundle: VS, one token per event, VE.
BlockOf(vd) ==
    <<"VS">> \o [k \in DOMAIN AscendingEvents(vd) |-> TokenText(AscendingEvents(vd)[k].concept)]
    \o <<"VE">>

\* C19: the tokens of a row, the interval tokens aside, are the blocks of the
\* period's bundles in bundle order, each a VS, one token per event of the
\* bundle ascending by (date, numeric concept id) and a VE; every token of the
\* block of visit r has visit-concept-order r and the visit's concept id as
\* visit-concept-id.
TokensAreVisitBlocks ==
    /\ output_rows # <<>> =>
          /\ SelectSeq(LastRow.concept_ids, LAMBDA x : x \notin IntervalTokens)
                = Concat([r \in DOMAIN returned_visit_datas |-> BlockOf(returned_visit_datas[r])])
          /\ \A k \in DOMAIN LastRow.concept_ids :
                LastRow.concept_ids[k] \notin IntervalTokens =>
                    LastRow.visit_concept_ids[k]
                        = returned_visit_datas[RankAt(LastRow.concept_ids, k)].visit.visit_concept_id
    /\ \A n \in DOMAIN output_rows :
          LET toks == output_rows[n].concept_ids IN
          \A k \in DOMAIN toks :
              /\ toks[k] \notin IntervalTokens =>
                    output_rows[n].visit_concept_orders[k] = RankAt(toks, k)
              /\ toks[k] = "VS" =>
                    \E m \in DOMAIN toks :
                        /\ m > k
                        /\ toks[m] = "VE"
                        /\ \A j \in (k + 1)..(m - 1) :
                              toks[j] \notin {"VS", "VE"} \cup IntervalTokens
              /\ toks[k] \notin {"VS", "VE"} \cup IntervalTokens =>
                    Cardinality({j \in 1..k : toks[j] = "VS"})
                        = Cardinality({j \in 1..k : toks[j] = "VE"}) + 1

\* C19 witness: in one block the token 10 of an earlier day stands before the
\* token 9 of a later day.
DateBeforeConceptWitness ==
    /\ output_rows # <<>>
    /\ \E k \in DOMAIN LastRow.concept_ids :
          /\ LastRow.concept_ids[k] = "10"
          /\ k < Len(LastRow.concept_ids)
          /\ LastRow.concept_ids[k + 1] = "9"

\* The hooks of the log that open or close a partition.
PartitionHookAt(k) == hooks[k][1] \in {"prepare_partition", "finish_partition"}
\* The position of the last partition hook before position k, or 0.
LastPartitionHookBefore(k) ==
    LET before == {j \in 1..(k - 1) : PartitionHookAt(j)}
    IN  IF before = {} THEN 0 ELSE Max(before)
\* The person ids of the process-person calls logged after position j.
PersonsCalledAfter(j) ==
    LET later == SubSeq(hooks, j + 1, Len(hooks))
        mine == SelectSeq(later, LAMBDA h : h[1] = "process_person")
    IN  [k \in DOMAIN mine |-> mine[k][2]]
\* The persons of the partition's person file, in file order.
PersonsOfPartition == [k \in DOMAIN files["person"] |-> files["person"][k].person_id]

PersonWithoutPeriodIsPassedOver ==
    \A k \in DOMAIN calls :
        "observation_period" \notin DOMAIN calls[k].cdm_tables =>
            /\ ~(pc = "error" /\ err = "KeyError")
            /\ \A n \in DOMAIN output : output[n].person_id # calls[k].person_id
            /\ pc \in {"finish", "done"} => Len(calls) = Len(files["person"])

====
